---------------------------- MODULE Spec2Model ----------------------------
(***************************************************************************)
(* minigrep (src/src/lib.rs): Config::parse, read_file, the two line       *)
(* searches, and run.                                                      *)
(*                                                                         *)
(* A Rust string is modelled as a sequence of characters, a character as a *)
(* one-element TLA+ string naming it.  Three characters are written by     *)
(* their code point: "U+03A3" (GREEK CAPITAL LETTER SIGMA), "U+03C3"       *)
(* (GREEK SMALL LETTER SIGMA) and "U+03C2" (GREEK SMALL LETTER FINAL       *)
(* SIGMA).  "\n" is LINE FEED and "\r" is CARRIAGE RETURN.                 *)
(***************************************************************************)
EXTENDS Integers, Sequences, FiniteSets, TLC

VARIABLES
    pc,        \* position of run: "parse", "read", "search", "print", "done"
    args,      \* run's argument list, a sequence of strings
    config,    \* <<>> or <<Config>>: the value bound by `let config`
    contents,  \* <<>> or <<String>>: the value bound by `let contents`
    matches,   \* the Vec<Match> bound by `let matches`
    printed,   \* how many elements of matches the for loop has consumed
    stdout,    \* what println! has written, a sequence of characters
    reads,     \* how many times fs::read_to_string has been called
    ret        \* run's return value: None, Ok(()) or Err(message)

vars == <<pc, args, config, contents, matches, printed, stdout, reads, ret>>

------------------------------------------------------------------------------
(* Bounds of the model. *)

MaxLen == 4      \* longest contents searched, read from a file or given
MaxQuery == 2    \* longest query the search is called on directly
MaxArgs == 5     \* longest argument list run is started with

LF == "\n"
CR == "\r"
CapitalSigma == "U+03A3"
SmallSigma == "U+03C3"
FinalSigma == "U+03C2"

Alphabet == {"a", "A", CapitalSigma, LF, CR}

RECURSIVE StringsUpTo(_, _)
StringsUpTo(S, n) ==
    IF n = 0 THEN {<<>>}
    ELSE LET shorter == StringsUpTo(S, n - 1)
         IN  shorter \cup {Append(s, c) : s \in shorter, c \in S}

Strings(n) == StringsUpTo(Alphabet, n)

\* Queries are drawn without the line feed: no line holds one, so a query
\* with a line feed matches nothing.
Queries(n) == StringsUpTo(Alphabet \ {LF}, n)

------------------------------------------------------------------------------
(* Standard-library string operations the program calls. *)

\* Variant: the receiver and the pattern exchanged (query.contains(text)).
Contains_Swapped(text, pat) ==
    \E i \in 0..(Len(pat) - Len(text)) : SubSeq(pat, i + 1, i + Len(text)) = text

\* Variant: the empty pattern special-cased to match nothing.
Contains_NonEmpty(text, pat) ==
    /\ pat # <<>>
    /\ \E i \in 0..(Len(text) - Len(pat)) :
           SubSeq(text, i + 1, i + Len(pat)) = pat

\* str::contains(&str): pat occurs in text as a contiguous run of characters.
Contains(text, pat) ==
    \E i \in 0..(Len(text) - Len(pat)) : SubSeq(text, i + 1, i + Len(pat)) = pat

\* Unicode derived property Cased, on the characters of the model.
Cased(c) == c \in {"a", "A", "i", "I", "x", "r", "R", "u", "U", "s", "t", "T",
                   "P", "c", "k", "h", "e", "f", "d", "o", "m", "p", "v",
                   CapitalSigma, SmallSigma, FinalSigma}

\* Unicode derived property Case_Ignorable, on the characters of the model.
Case_Ignorable(c) == c \in {".", ":", "'"}

\* char::to_lowercase: the (context-free) lowercase mapping of one character.
CharToLowercase(c) ==
    CASE c = "A" -> <<"a">>
      [] c = "I" -> <<"i">>
      [] c = "P" -> <<"p">>
      [] c = "R" -> <<"r">>
      [] c = "T" -> <<"t">>
      [] c = "U" -> <<"u">>
      [] c = CapitalSigma -> <<SmallSigma>>
      [] OTHER -> <<c>>

Reverse(s) == [i \in 1..Len(s) |-> s[Len(s) + 1 - i]]

\* to_lowercase's helper: skip the case-ignorable characters, then ask
\* whether the next one is cased.
RECURSIVE case_ignoreable_then_cased(_)
case_ignoreable_then_cased(s) ==
    IF s = <<>> THEN FALSE
    ELSE IF Case_Ignorable(Head(s)) THEN case_ignoreable_then_cased(Tail(s))
    ELSE Cased(Head(s))

\* to_lowercase's helper: capital sigma at position i of from becomes final
\* sigma at the end of a word and small sigma elsewhere.
map_uppercase_sigma(from, i) ==
    LET is_word_final ==
            /\ case_ignoreable_then_cased(Reverse(SubSeq(from, 1, i - 1)))
            /\ ~case_ignoreable_then_cased(SubSeq(from, i + 1, Len(from)))
    IN  IF is_word_final THEN <<FinalSigma>> ELSE <<SmallSigma>>

RECURSIVE ToLowercaseFrom(_, _)
ToLowercaseFrom(s, i) ==
    IF i > Len(s) THEN <<>>
    ELSE (IF s[i] = CapitalSigma THEN map_uppercase_sigma(s, i)
          ELSE CharToLowercase(s[i])) \o ToLowercaseFrom(s, i + 1)

\* str::to_lowercase.
to_lowercase(s) == ToLowercaseFrom(s, 1)

\* Position of the first line feed of s, 0 when there is none.
FirstLF(s) ==
    IF \E i \in 1..Len(s) : s[i] = LF
    THEN CHOOSE i \in 1..Len(s) : s[i] = LF /\ \A j \in 1..(i - 1) : s[j] # LF
    ELSE 0

StripCR(l) ==
    IF Len(l) > 0 /\ l[Len(l)] = CR THEN SubSeq(l, 1, Len(l) - 1) ELSE l

\* Variant: split('\n') in place of lines(): a final line feed is followed
\* by one more, empty, line.
RECURSIVE Lines_Split(_, _)
Lines_Split(bare_cr, s) ==
    LET i == FirstLF(s)
    IN  IF i = 0 THEN << IF bare_cr THEN StripCR(s) ELSE s >>
        ELSE <<StripCR(SubSeq(s, 1, i - 1))>>
                 \o Lines_Split(bare_cr, SubSeq(s, i + 1, Len(s)))

\* str::lines.  Lines end at a line feed, a carriage return directly before
\* that line feed belongs to the terminator, and the last line needs no
\* terminator.  Releases of the standard library differ on one case: a
\* carriage return that ends the last, unterminated line is removed by the
\* older ones (bare_cr = TRUE) and kept by the newer ones (bare_cr = FALSE).
RECURSIVE Lines(_, _)
Lines(bare_cr, s) ==
    IF s = <<>> THEN <<>>
    ELSE LET i == FirstLF(s)
         IN  IF i = 0 THEN << IF bare_cr THEN StripCR(s) ELSE s >>
             ELSE <<StripCR(SubSeq(s, 1, i - 1))>>
                      \o Lines(bare_cr, SubSeq(s, i + 1, Len(s)))

------------------------------------------------------------------------------
(* The program.  A string literal of the source is kept as one element of  *)
(* the sequence that models the string it is formatted into.               *)

USAGE_STR == <<"Usage:\nminigrep [-i] <QUERY> <FILE>">>

Ok(v) == [ok |-> TRUE, val |-> v]
Err(e) == [ok |-> FALSE, err |-> e]

Config(query, filename, case_sensitive) ==
    [query |-> query, filename |-> filename, case_sensitive |-> case_sensitive]

Match(line, text) == [line |-> line, text |-> text]

DashI == <<"-", "i">>

\* Variant: the half-open range 3..4 in place of 3...4.
Config_parse_HalfOpen(a) ==
    IF Len(a) \in 3..3 THEN
        IF Len(a) = 3 THEN Ok(Config(a[2], a[3], TRUE))
        ELSE IF a[2] = DashI THEN Ok(Config(a[3], a[4], FALSE))
        ELSE Err(<<"First argument '">> \o a[2]
                     \o <<"' is not a valid option\n">> \o USAGE_STR)
    ELSE IF Len(a) < 3 THEN Err(<<"Not enough arguments\n">> \o USAGE_STR)
    ELSE Err(<<"Too many arguments\n">> \o USAGE_STR)

\* Variant: the guard n > 3 in place of n < 3.
Config_parse_GuardFlipped(a) ==
    IF Len(a) \in 3..4 THEN
        IF Len(a) = 3 THEN Ok(Config(a[2], a[3], TRUE))
        ELSE IF a[2] = DashI THEN Ok(Config(a[3], a[4], FALSE))
        ELSE Err(<<"First argument '">> \o a[2]
                     \o <<"' is not a valid option\n">> \o USAGE_STR)
    ELSE IF Len(a) > 3 THEN Err(<<"Not enough arguments\n">> \o USAGE_STR)
    ELSE Err(<<"Too many arguments\n">> \o USAGE_STR)

\* Variant: the -i branch leaves case_sensitive true.
Config_parse_FlagDropped(a) ==
    IF Len(a) \in 3..4 THEN
        IF Len(a) = 3 THEN Ok(Config(a[2], a[3], TRUE))
        ELSE IF a[2] = DashI THEN Ok(Config(a[3], a[4], TRUE))
        ELSE Err(<<"First argument '">> \o a[2]
                     \o <<"' is not a valid option\n">> \o USAGE_STR)
    ELSE IF Len(a) < 3 THEN Err(<<"Not enough arguments\n">> \o USAGE_STR)
    ELSE Err(<<"Too many arguments\n">> \o USAGE_STR)

\* Config::parse.  An index is the source's index plus one.
Config_parse(a) ==
    IF Len(a) \in 3..4 THEN
        IF Len(a) = 3 THEN Ok(Config(a[2], a[3], TRUE))
        ELSE IF a[2] = DashI THEN Ok(Config(a[3], a[4], FALSE))
        ELSE Err(<<"First argument '">> \o a[2]
                     \o <<"' is not a valid option\n">> \o USAGE_STR)
    ELSE IF Len(a) < 3 THEN Err(<<"Not enough arguments\n">> \o USAGE_STR)
    ELSE Err(<<"Too many arguments\n">> \o USAGE_STR)

\* What fs::read_to_string can answer: the file's text, or an io::Error.
IoErrors == {"No such file or directory (os error 2)",
             "Permission denied (os error 13)",
             "stream did not contain valid UTF-8"}

FsOutcomes == {Ok(s) : s \in Strings(MaxLen)} \cup {Err(e) : e \in IoErrors}

\* read_file, given the answer of fs::read_to_string.
read_file(filename, fs) ==
    IF fs.ok THEN Ok(fs.val)
    ELSE Err(<<"Error reading \"">> \o filename \o <<"\": ">> \o <<fs.err>>)

\* The for loop of search_case_sensitive over the lines left, ls.
RECURSIVE CaseSensitiveLoop(_, _, _, _)
CaseSensitiveLoop(query, ls, line, results) ==
    IF ls = <<>> THEN results
    ELSE LET text == Head(ls)
         IN  CaseSensitiveLoop(query, Tail(ls), line + 1,
                 IF Contains(text, query)
                 THEN Append(results, Match(line, text))
                 ELSE results)

\* Variant: the line counter starts at 0.
search_case_sensitive_FromZero(bare_cr, query, text) ==
    CaseSensitiveLoop(query, Lines(bare_cr, text), 0, <<>>)

search_case_sensitive(bare_cr, query, text) ==
    CaseSensitiveLoop(query, Lines(bare_cr, text), 1, <<>>)

\* The for loop of search_case_insensitive over the lines left, ls.
RECURSIVE CaseInsensitiveLoop(_, _, _, _)
CaseInsensitiveLoop(query_lower, ls, line, results) ==
    IF ls = <<>> THEN results
    ELSE LET text == Head(ls)
         IN  CaseInsensitiveLoop(query_lower, Tail(ls), line + 1,
                 IF Contains(to_lowercase(text), query_lower)
                 THEN Append(results, Match(line, text))
                 ELSE results)

\* Variant: the query is compared as given, not lowercased.
search_case_insensitive_RawQuery(bare_cr, query, text) ==
    CaseInsensitiveLoop(query, Lines(bare_cr, text), 1, <<>>)

search_case_insensitive(bare_cr, query, text) ==
    CaseInsensitiveLoop(to_lowercase(query), Lines(bare_cr, text), 1, <<>>)

search(bare_cr, query, text, case_sensitive) ==
    IF case_sensitive THEN search_case_sensitive(bare_cr, query, text)
    ELSE search_case_insensitive(bare_cr, query, text)

\* Variant: print! in place of println!.
PrintLine_NoNewline(m) == m.text

\* Display for Match, then println!: the text and a line feed.
PrintLine(m) == m.text \o <<LF>>

------------------------------------------------------------------------------
(* run, one action per statement. *)

NoRet == [tag |-> "None", msg |-> <<>>]
RetOk == [tag |-> "Ok", msg |-> <<>>]
RetErr(msg) == [tag |-> "Err", msg |-> msg]

\* let config = Config::parse(&args)?;
RunParse ==
    /\ pc = "parse"
    /\ LET r == Config_parse(args)
       IN  IF r.ok
           THEN /\ config' = <<r.val>>
                /\ pc' = "read"
                /\ ret' = ret
           ELSE /\ config' = config
                /\ pc' = "done"
                /\ ret' = RetErr(r.err)
    /\ UNCHANGED <<args, contents, matches, printed, stdout, reads>>

\* let contents = read_file(config.filename)?;
RunReadFile ==
    /\ pc = "read"
    /\ \E fs \in FsOutcomes :
         LET r == read_file(config[1].filename, fs)
         IN  IF r.ok
             THEN /\ contents' = <<r.val>>
                  /\ pc' = "search"
                  /\ ret' = ret
             ELSE /\ contents' = contents
                  /\ pc' = "done"
                  /\ ret' = RetErr(r.err)
    /\ reads' = reads + 1
    /\ UNCHANGED <<args, config, matches, printed, stdout>>

\* let matches = search(config.query, &contents, config.case_sensitive);
RunSearch ==
    /\ pc = "search"
    /\ \E bare_cr \in BOOLEAN :
         matches' = search(bare_cr, config[1].query, contents[1],
                           config[1].case_sensitive)
    /\ pc' = "print"
    /\ UNCHANGED <<args, config, contents, printed, stdout, reads, ret>>

\* One iteration of: for line in matches { println!("{}", line); }
RunPrint ==
    /\ pc = "print"
    /\ printed < Len(matches)
    /\ stdout' = stdout \o PrintLine(matches[printed + 1])
    /\ printed' = printed + 1
    /\ UNCHANGED <<pc, args, config, contents, matches, reads, ret>>

\* Ok(())
RunReturn ==
    /\ pc = "print"
    /\ printed = Len(matches)
    /\ pc' = "done"
    /\ ret' = RetOk
    /\ UNCHANGED <<args, config, contents, matches, printed, stdout, reads>>

\* The argument strings the model explores.
ArgTokens == {DashI, <<"a">>, <<"A">>}

RECURSIVE ArgLists(_)
ArgLists(n) ==
    IF n = 0 THEN {<<>>}
    ELSE LET shorter == ArgLists(n - 1)
         IN  shorter \cup {Append(a, t) : a \in shorter, t \in ArgTokens}

Init ==
    /\ pc = "parse"
    /\ args \in ArgLists(MaxArgs)
    /\ config = <<>>
    /\ contents = <<>>
    /\ matches = <<>>
    /\ printed = 0
    /\ stdout = <<>>
    /\ reads = 0
    /\ ret = NoRet

Next == RunParse \/ RunReadFile \/ RunSearch \/ RunPrint \/ RunReturn

Spec == Init /\ [][Next]_vars

(* search called as the tests call it: on any query, contents and mode. *)
InitSearch ==
    /\ pc = "search"
    /\ args = <<>>
    /\ \E q \in Queries(MaxQuery), cs \in BOOLEAN :
         config = <<Config(q, <<>>, cs)>>
    /\ \E c \in Strings(MaxLen) : contents = <<c>>
    /\ matches = <<>>
    /\ printed = 0
    /\ stdout = <<>>
    /\ reads = 0
    /\ ret = NoRet

NextSearch == RunSearch

SpecSearch == InitSearch /\ [][NextSearch]_vars

(* The same, on the contents every release of the standard library splits  *)
(* into the same lines: those that do not end in a carriage return.        *)
InitSearchNoFinalCR ==
    /\ InitSearch
    /\ contents[1] = <<>> \/ contents[1][Len(contents[1])] # CR

SpecSearchNoFinalCR == InitSearchNoFinalCR /\ [][NextSearch]_vars

------------------------------------------------------------------------------
(* The scenario of tests::case_insensitive. *)

PoemQuery == <<"r", "U", "s", "T">>

PoemContents ==
    <<"R", "u", "s", "t", ":", LF, "s", "a", "f", "e", ",", " ", "f", "a",
      "s", "t", ",", " ", "p", "r", "o", "d", "u", "c", "t", "i", "v", "e",
      ".", LF, "P", "i", "c", "k", " ", "t", "h", "r", "e", "e", ".", LF,
      "T", "r", "u", "s", "t", " ", "m", "e", ".">>

PoemLine1 ==
    <<"R", "u", "s", "t", ":">>

PoemLine4 ==
    <<"T", "r", "u", "s", "t", " ", "m", "e", ".">>

\* What search answers on the scenario, under either standard library.
PoemMatches == {search(b, PoemQuery, PoemContents, FALSE) : b \in BOOLEAN}

------------------------------------------------------------------------------
(* What the properties speak of, stated without the program's operators.   *)

\* The search has run: matches holds its result.
Searched == pc \in {"print", "done"} /\ contents # <<>>

\* pat occurs in text as an exact substring.
IsSubstring(pat, text) ==
    \E i \in 1..(Len(text) + 1) :
        \E j \in (i - 1)..Len(text) : SubSeq(text, i, j) = pat

LFPositions(c) == {i \in 1..Len(c) : c[i] = LF}

\* The number of newline-delimited lines of c: a last line without a
\* trailing newline counts, and nothing follows a final newline.
NumSegments(c) ==
    Cardinality(LFPositions(c))
        + (IF c # <<>> /\ c[Len(c)] # LF THEN 1 ELSE 0)

\* Where the n-th newline-delimited line of c ends: at the n-th line feed,
\* or after the last character.
SegmentEnd(c, n) ==
    IF n <= Cardinality(LFPositions(c))
    THEN CHOOSE i \in LFPositions(c) :
             Cardinality({j \in LFPositions(c) : j <= i}) = n
    ELSE Len(c) + 1

\* The n-th newline-delimited line of c (1-based), delimiters excluded.
Segment(c, n) ==
    SubSeq(c, (IF n = 1 THEN 0 ELSE SegmentEnd(c, n - 1)) + 1,
           SegmentEnd(c, n) - 1)

\* A line without the carriage return of a CR LF terminator.
WithoutCR(l) ==
    IF l # <<>> /\ l[Len(l)] = CR THEN SubSeq(l, 1, Len(l) - 1) ELSE l

LineNumbers(ms) == {ms[k].line : k \in 1..Len(ms)}

Ascending(ms) == \A k \in 1..(Len(ms) - 1) : ms[k].line < ms[k + 1].line

EndsIn(c, chars) == c # <<>> /\ c[Len(c)] \in chars

------------------------------------------------------------------------------
(* Properties of the search (checked under SpecSearch, and those about     *)
(* the line a Match holds under SpecSearchNoFinalCR).                      *)

\* C1: a case-sensitive search with a non-empty query returns only Matches
\* whose text contains the query as an exact substring, in strictly
\* ascending line-number order.
C1_OnlyContainingAscending ==
    (Searched /\ config[1].case_sensitive /\ config[1].query # <<>>) =>
        /\ \A k \in 1..Len(matches) :
               IsSubstring(config[1].query, matches[k].text)
        /\ Ascending(matches)

C1_Witness ==
    /\ Searched /\ config[1].case_sensitive /\ config[1].query # <<>>
    /\ Len(matches) >= 2
    /\ Len(matches) < NumSegments(contents[1])

\* C2 as claimed: whenever the N-th newline-delimited line of contents
\* contains the query, the case-sensitive result holds exactly one Match
\* numbered N, and its text is that line.
C2_Original ==
    (Searched /\ config[1].case_sensitive) =>
        \A n \in 1..NumSegments(contents[1]) :
            IsSubstring(config[1].query, Segment(contents[1], n)) =>
                /\ Cardinality({k \in 1..Len(matches) : matches[k].line = n}) = 1
                /\ \E k \in 1..Len(matches) :
                       matches[k] = [line |-> n, text |-> Segment(contents[1], n)]

\* C2 amended: for contents that does not end in a carriage return, whenever
\* the N-th newline-delimited line, taken without the carriage return of a
\* CR LF terminator, contains the query, the case-sensitive result holds
\* exactly one Match numbered N, and its text is that line without that
\* carriage return.
C2_EveryContainingLine ==
    (Searched /\ config[1].case_sensitive /\ ~EndsIn(contents[1], {CR})) =>
        \A n \in 1..NumSegments(contents[1]) :
            LET l == WithoutCR(Segment(contents[1], n))
            IN  IsSubstring(config[1].query, l) =>
                    /\ Cardinality({k \in 1..Len(matches) :
                                       matches[k].line = n}) = 1
                    /\ \E k \in 1..Len(matches) :
                           matches[k] = [line |-> n, text |-> l]

C2_Witness ==
    /\ Searched /\ config[1].case_sensitive /\ ~EndsIn(contents[1], {CR})
    /\ config[1].query # <<>>
    /\ \E k \in 1..Len(matches) :
           /\ matches[k].line = 2
           /\ matches[k].text # Segment(contents[1], 2)
    /\ ~IsSubstring(config[1].query, WithoutCR(Segment(contents[1], 1)))

\* C3: for a query with a character that has distinct case forms, every line
\* number the case-sensitive search reports is reported by the
\* case-insensitive search of the same query and contents.
C3_InsensitiveSuperset ==
    (/\ Searched /\ config[1].case_sensitive
     /\ \E i \in 1..Len(config[1].query) :
            config[1].query[i] \in {"a", "A", CapitalSigma}) =>
        \A b \in BOOLEAN :
            matches = search(b, config[1].query, contents[1], TRUE) =>
                LineNumbers(matches) \subseteq
                    LineNumbers(search(b, config[1].query, contents[1], FALSE))

\* C4: the case-insensitive search reports a line exactly when the
\* lowercased line contains the lowercased query, each Match carrying the
\* line's 1-based number and its original text; on the scenario of
\* tests::case_insensitive it reports lines 1 and 4.
C4_InsensitiveExact ==
    /\ (Searched /\ ~config[1].case_sensitive) =>
          \E b \in BOOLEAN :
              LET ls == Lines(b, contents[1])
                  hit(n) == IsSubstring(to_lowercase(config[1].query),
                                        to_lowercase(ls[n]))
              IN  /\ \A k \in 1..Len(matches) :
                         /\ matches[k].line \in 1..Len(ls)
                         /\ hit(matches[k].line)
                         /\ matches[k].text = ls[matches[k].line]
                  /\ \A n \in 1..Len(ls) : hit(n) => n \in LineNumbers(matches)
                  /\ Ascending(matches)
    /\ PoemMatches = { << [line |-> 1, text |-> PoemLine1],
                          [line |-> 4, text |-> PoemLine4] >> }

C4_Witness ==
    /\ Searched /\ ~config[1].case_sensitive
    /\ \E k \in 1..Len(matches) :
           /\ ~IsSubstring(config[1].query, matches[k].text)
           /\ matches[k].text # to_lowercase(matches[k].text)
           /\ matches[k].line = 2
    /\ Len(matches) < NumSegments(contents[1])

\* C5: for the empty query and non-empty contents, in either mode, the
\* result has one Match per line of contents, numbered 1..n without gaps.
C5_EmptyQueryMatchesAll ==
    (Searched /\ config[1].query = <<>> /\ contents[1] # <<>>) =>
        /\ Len(matches) = NumSegments(contents[1])
        /\ \A k \in 1..Len(matches) : matches[k].line = k

C5_Witness ==
    /\ Searched /\ config[1].query = <<>> /\ ~config[1].case_sensitive
    /\ Len(matches) >= 2
    /\ EndsIn(contents[1], {LF})

\* C9 as claimed: for contents c not ending in a newline, searching c and
\* searching c followed by a newline give the same Matches, and each Match
\* text is exactly the text between two newline delimiters.
C9_Original ==
    (Searched /\ ~EndsIn(contents[1], {LF})) =>
        /\ \A b \in BOOLEAN :
               search(b, config[1].query, contents[1] \o <<LF>>,
                      config[1].case_sensitive) = matches
        /\ \A k \in 1..Len(matches) :
               matches[k].text = Segment(contents[1], matches[k].line)

\* C9 amended: for non-empty contents c ending in neither a newline nor a
\* carriage return, searching c and searching c followed by a newline give
\* the same Matches, and each Match text is the text between two newline
\* delimiters without the carriage return of a CR LF terminator.
C9_TrailingNewline ==
    (Searched /\ contents[1] # <<>> /\ ~EndsIn(contents[1], {LF, CR})) =>
        /\ \A b \in BOOLEAN :
               search(b, config[1].query, contents[1] \o <<LF>>,
                      config[1].case_sensitive) = matches
        /\ \A k \in 1..Len(matches) :
               matches[k].text
                   = WithoutCR(Segment(contents[1], matches[k].line))

C9_Witness ==
    /\ Searched /\ contents[1] # <<>> /\ ~EndsIn(contents[1], {LF, CR})
    /\ Len(matches) >= 2
    /\ matches[1].text # Segment(contents[1], 1)

------------------------------------------------------------------------------
(* Properties of Config::parse and run (checked under Spec). *)

\* Config::parse has returned: Ok binds config, Err ends run with the error.
Parsed == pc # "parse"
Accepted == Parsed /\ config # <<>>
Rejected == Parsed /\ config = <<>>

UsageText == "Usage:\nminigrep [-i] <QUERY> <FILE>"

\* C6: Config::parse succeeds on exactly two shapes: 3 arguments give
\* Config{query: args[1], filename: args[2], case_sensitive: true}; 4
\* arguments with args[1] = "-i" give Config{query: args[2], filename:
\* args[3], case_sensitive: false}; every other list gives an error.
C6_ParseShapes ==
    Parsed =>
        IF Len(args) = 3
        THEN config = << [query |-> args[2], filename |-> args[3],
                          case_sensitive |-> TRUE] >>
        ELSE IF Len(args) = 4 /\ args[2] = <<"-", "i">>
        THEN config = << [query |-> args[3], filename |-> args[4],
                          case_sensitive |-> FALSE] >>
        ELSE config = <<>> /\ pc = "done" /\ ret.tag = "Err"

C6_Witness ==
    /\ Accepted /\ Len(args) = 4
    /\ config[1].query # config[1].filename
    /\ config[1].query # <<"-", "i">>

\* C7: every rejected argument list, the empty one included, gets exactly
\* one error: fewer than 3 arguments "Not enough arguments", more than 4
\* "Too many arguments", 4 with args[1] other than "-i" a message quoting
\* args[1] as not a valid option; the usage text follows each.
C7_ParseErrors ==
    Rejected =>
        /\ pc = "done"
        /\ ret.tag = "Err"
        /\ \/ Len(args) < 3
              /\ ret.msg = <<"Not enough arguments\n", UsageText>>
           \/ Len(args) > 4
              /\ ret.msg = <<"Too many arguments\n", UsageText>>
           \/ Len(args) = 4 /\ args[2] # <<"-", "i">>
              /\ ret.msg = <<"First argument '">> \o args[2]
                     \o <<"' is not a valid option\n", UsageText>>

C7_Witness ==
    /\ Rejected /\ Len(args) = 4 /\ ret.tag = "Err"
    /\ args[3] = <<"-", "i">>

\* The text println! writes for the first n of ms, one Match per line.
RECURSIVE PrintedText(_, _)
PrintedText(ms, n) ==
    IF n = 0 THEN <<>> ELSE PrintedText(ms, n - 1) \o ms[n].text \o <<LF>>

\* C8: run goes parse, read file, search, print, and a failure ends it with
\* no output: when Config::parse fails the file is never read and nothing
\* is printed; when read_file fails nothing is printed and run returns the
\* error; Matches are printed only once the file has been read, one per
\* line, in the order search returned them.
C8_RunOrder ==
    /\ reads <= 1
    /\ pc = "parse" => config = <<>> /\ reads = 0
    /\ pc = "read" => config # <<>> /\ reads = 0
    /\ pc \in {"parse", "read"} => contents = <<>>
    /\ pc \in {"parse", "read", "search"} =>
           matches = <<>> /\ stdout = <<>> /\ ret.tag = "None"
    /\ pc \in {"search", "print"} =>
           config # <<>> /\ contents # <<>> /\ reads = 1 /\ ret.tag = "None"
    /\ Rejected => reads = 0 /\ stdout = <<>> /\ ret.tag = "Err"
    /\ (Accepted /\ pc = "done" /\ contents = <<>>) =>
           /\ reads = 1 /\ stdout = <<>> /\ matches = <<>>
           /\ ret.tag = "Err"
           /\ SubSeq(ret.msg, 1, 1 + Len(config[1].filename))
                  = <<"Error reading \"">> \o config[1].filename
    /\ ret.tag = "Err" => pc = "done" /\ stdout = <<>> /\ contents = <<>>
    /\ ret.tag = "Ok" => pc = "done" /\ printed = Len(matches)
    /\ stdout # <<>> => contents # <<>> /\ reads = 1
    /\ printed <= Len(matches)
    /\ stdout = PrintedText(matches, printed)

C8_Witness ==
    /\ pc = "done" /\ ret.tag = "Ok"
    /\ printed >= 2
    /\ Len(matches) < NumSegments(contents[1])

\* C10 as claimed: in an accepted argument list, a first user argument
\* args[1] equal to "-i" is always taken as the flag (case_sensitive =
\* false) and never as the query.
C10_Original ==
    (Accepted /\ args[2] = <<"-", "i">>) =>
        ~config[1].case_sensitive /\ config[1].query # args[2]

\* C10 amended: in an accepted list of 4 arguments, args[1] is "-i" and is
\* taken as the flag (case_sensitive = false, the query being args[2]); in
\* an accepted list of 3 arguments, args[1] equal to "-i" is taken as the
\* query, and the search is case-sensitive.
C10_DashI ==
    (Accepted /\ args[2] = <<"-", "i">>) =>
        IF Len(args) = 4
        THEN ~config[1].case_sensitive /\ config[1].query = args[3]
        ELSE /\ Len(args) = 3
             /\ config[1].case_sensitive /\ config[1].query = <<"-", "i">>

C10_Witness ==
    /\ Accepted /\ Len(args) = 4 /\ args[2] = <<"-", "i">>
    /\ args[3] = <<"-", "i">>
    /\ pc = "done" /\ ret.tag = "Ok"

==============================================================================
